---- MODULE Spec2Model ----
(***************************************************************************)
(* CustomHttpClient.makeRequest of stripe-bun (src/index.js): the request  *)
(* encoder, the socket event handlers and the response framer.             *)
(*                                                                         *)
(* Text is a sequence of one-character strings, so that indexOf, split,    *)
(* toLowerCase and parseInt are computed on the characters as the code     *)
(* computes them.  A Buffer holding ASCII is the same sequence.            *)
(***************************************************************************)
EXTENDS Integers, Sequences, FiniteSets, TLC

(***************************************************************************)
(* Bounds of the model.                                                    *)
(***************************************************************************)
\* Ticks of inactivity after which the socket's idle timer fires (the
\* `timeout` argument of makeRequest, in ticks).
TimeoutTicks == 1
\* The data events of a call are counted up to this number.
MaxCount == 3
\* Most entries in a caller-supplied header mapping.
MaxHdrs == 2
\* Time since a call was made is counted up to MaxElapsed ticks.
MaxElapsed == 3
\* Where chunks are cut every Stride bytes: the sizes of the chunks.
Stride == 12

(***************************************************************************)
(* JavaScript values.                                                      *)
(***************************************************************************)
\* `undefined`: a one-element sequence whose element is no character, so it
\* differs from every text; String(undefined) has no leading digit.
Undefined == <<"undefined">>
\* `null` as the requestData argument.
Null == <<"null">>

\* A JS number that is an integer, and NaN.
Num(n) == [nan |-> FALSE, n |-> n]
NaN == [nan |-> TRUE, n |-> 0]
\* a === k for an integer literal k (false for NaN).
NumIs(a, k) == ~a.nan /\ a.n = k
\* len >= b for an integer len (false when b is NaN).
Geq(len, b) == ~b.nan /\ len >= b.n

CR == "\r"
LF == "\n"
SP == <<" ">>
CRLF == <<CR, LF>>
CRLFCRLF == <<CR, LF, CR, LF>>
ColonSpace == <<":", " ">>

Digits == {"0", "1", "2", "3", "4", "5", "6", "7", "8", "9"}
DigitVal(c) ==
  CASE c = "0" -> 0 [] c = "1" -> 1 [] c = "2" -> 2 [] c = "3" -> 3
    [] c = "4" -> 4 [] c = "5" -> 5 [] c = "6" -> 6 [] c = "7" -> 7
    [] c = "8" -> 8 [] c = "9" -> 9
DigitChar(d) == <<"0", "1", "2", "3", "4", "5", "6", "7", "8", "9">>[d + 1]

Upper == <<"A", "B", "C", "D", "E", "F", "G", "H", "I", "J", "K", "L", "M",
           "N", "O", "P", "Q", "R", "S", "T", "U", "V", "W", "X", "Y", "Z">>
Lower == <<"a", "b", "c", "d", "e", "f", "g", "h", "i", "j", "k", "l", "m",
           "n", "o", "p", "q", "r", "s", "t", "u", "v", "w", "x", "y", "z">>

\* One character of String.prototype.toLowerCase.
LowerChar(c) ==
  IF \E i \in 1..26 : Upper[i] = c
  THEN Lower[CHOOSE i \in 1..26 : Upper[i] = c]
  ELSE c

\* A text with its letters in lower case: how header names are compared
\* when a response or a request is read by its reader.
FoldCase(s) == [i \in 1..Len(s) |-> LowerChar(s[i])]

\* A toLowerCase that leaves the text as it is.
ToLowerCaseKeepsCase(s) == s

\* key.toLowerCase() in the header loop.
ToLowerCase(s) == [i \in 1..Len(s) |-> LowerChar(s[i])]

\* s.slice(from, to) with 0-based from (inclusive) and to (exclusive).
Slice(s, from, to) == SubSeq(s, from + 1, to)
\* s.slice(from).
SliceFrom(s, from) == SubSeq(s, from + 1, Len(s))

\* Whether pat occurs in s at 0-based index i.
MatchAt(s, pat, i) ==
  /\ i + Len(pat) <= Len(s)
  /\ \A j \in 1..Len(pat) : s[i + j] = pat[j]

\* s.indexOf(pat): the first 0-based index of pat in s, -1 when there is none.
IndexOf(s, pat) ==
  IF \E i \in 0..Len(s) : MatchAt(s, pat, i)
  THEN CHOOSE i \in 0..Len(s) :
         /\ MatchAt(s, pat, i)
         /\ \A k \in 0..(i - 1) : ~MatchAt(s, pat, k)
  ELSE -1

\* s.split(sep) for a non-empty separator: the pieces between occurrences.
RECURSIVE Split(_, _)
Split(s, sep) ==
  LET i == IndexOf(s, sep)
  IN IF i = -1
     THEN <<s>>
     ELSE <<Slice(s, 0, i)>> \o Split(SliceFrom(s, i + Len(sep)), sep)

\* arr[k] for a 0-based k: undefined beyond the end.
At(arr, k) == IF k + 1 <= Len(arr) THEN arr[k + 1] ELSE Undefined

\* v || dflt for a text or undefined v.
OrElse(v, dflt) == IF v = Undefined \/ v = <<>> THEN dflt ELSE v

WhiteSpace == {" ", "\t", "\r", "\n"}

RECURSIVE SkipWs(_)
SkipWs(s) == IF s # <<>> /\ s[1] \in WhiteSpace THEN SkipWs(Tail(s)) ELSE s

\* The value of the leading decimal digits of s, continuing from acc.
RECURSIVE DigitsVal(_, _)
DigitsVal(s, acc) ==
  IF s # <<>> /\ s[1] \in Digits
  THEN DigitsVal(Tail(s), 10 * acc + DigitVal(s[1]))
  ELSE acc

\* parseInt(v) without a radix, for texts that do not start with 0x: leading
\* white space, an optional sign, then the decimal digits up to the first
\* other character; NaN when there is no digit.
ParseInt(v) ==
  LET t == SkipWs(v)
      neg == t # <<>> /\ t[1] = "-"
      u == IF t # <<>> /\ t[1] \in {"+", "-"} THEN Tail(t) ELSE t
  IN IF u = <<>> \/ u[1] \notin Digits
     THEN NaN
     ELSE Num((IF neg THEN -1 ELSE 1) * DigitsVal(u, 0))

\* The decimal digits of a natural number, as Number.prototype.toString.
RECURSIVE NumToString(_)
NumToString(n) ==
  IF n < 10 THEN <<DigitChar(n)>>
  ELSE NumToString(n \div 10) \o <<DigitChar(n % 10)>>

\* The character U+00E9 (e with acute accent), written by its code point.
EAcute == "U+00E9"

\* The UTF-8 length of one character: the model's only non-ASCII character
\* is U+00E9, two bytes.
CharBytes(c) == IF c = EAcute THEN 2 ELSE 1

\* Buffer.byteLength(s).
RECURSIVE ByteLength(_)
ByteLength(s) == IF s = <<>> THEN 0 ELSE CharBytes(s[1]) + ByteLength(Tail(s))

\* An object without own properties, as a mapping from key to value.
EmptyObject == [k \in {} |-> <<>>]
\* obj[key] = value.
SetProp(obj, key, value) ==
  [k \in DOMAIN obj \cup {key} |-> IF k = key THEN value ELSE obj[k]]
\* obj[key]: undefined for a key the object does not have.
GetProp(obj, key) == IF key \in DOMAIN obj THEN obj[key] ELSE Undefined

VARIABLES requestId, call, peer

vars == <<requestId, call, peer>>


(***************************************************************************)
(* State.                                                                  *)
(*   requestId  the client's only field (this.requestId).                  *)
(*   call[i]    the closure of the i-th makeRequest call: its arguments,   *)
(*              the encoded request, the socket, the framing variables of  *)
(*              connectCallback and the promise.                           *)
(*   peer[i]    the transport of call i: the response the server sends,    *)
(*              how much of it has been delivered, the idle clock of       *)
(*              socket.setTimeout, and the time since the call was made    *)
(*              (counted where a specification measures it).               *)
(***************************************************************************)
CallIds == {1, 2}

\* The value of a promise that has not settled.
NoValue ==
  [kind |-> "none", url |-> <<>>, statusCode |-> Num(0),
   headers |-> EmptyObject, responseData |-> <<>>, error |-> ""]

\* new Error("Connection timed out"), and the error a socket reports.
ErrorValue(e) == [NoValue EXCEPT !.kind = "error", !.error = e]

\* createResponse(url, statusCode, headers, responseData): the values its
\* accessors close over.
createResponse(url, statusCode, headers, responseData) ==
  [kind |-> "response", url |-> url, statusCode |-> statusCode,
   headers |-> headers, responseData |-> responseData, error |-> ""]

\* statusCodeToText: the texts of the status codes the client knows.
statusCodeToText ==
  {
     <<100, "Continue">>, <<101, "Switching Protocols">>,
     <<102, "Processing">>, <<103, "Early Hints">>,
     <<200, "OK">>, <<201, "Created">>,
     <<202, "Accepted">>, <<203, "Non-Authoritative Information">>,
     <<204, "No Content">>, <<205, "Reset Content">>,
     <<206, "Partial Content">>, <<207, "Multi-Status">>,
     <<208, "Already Reported">>, <<226, "IM Used">>,
     <<300, "Multiple Choices">>, <<301, "Moved Permanently">>,
     <<302, "Found">>, <<303, "See Other">>,
     <<304, "Not Modified">>, <<305, "Use Proxy">>,
     <<307, "Temporary Redirect">>, <<308, "Permanent Redirect">>,
     <<400, "Bad Request">>, <<401, "Unauthorized">>,
     <<402, "Payment Required">>, <<403, "Forbidden">>,
     <<404, "Not Found">>, <<405, "Method Not Allowed">>,
     <<406, "Not Acceptable">>, <<407, "Proxy Authentication Required">>,
     <<408, "Request Timeout">>, <<409, "Conflict">>,
     <<410, "Gone">>, <<411, "Length Required">>,
     <<412, "Precondition Failed">>, <<413, "Payload Too Large">>,
     <<414, "URI Too Long">>, <<415, "Unsupported Media Type">>,
     <<416, "Range Not Satisfiable">>, <<417, "Expectation Failed">>,
     <<418, "I'm a teapot">>, <<421, "Misdirected Request">>,
     <<422, "Unprocessable Entity">>, <<423, "Locked">>,
     <<424, "Failed Dependency">>, <<425, "Too Early">>,
     <<426, "Upgrade Required">>, <<428, "Precondition Required">>,
     <<429, "Too Many Requests">>, <<431, "Request Header Fields Too Large">>,
     <<451, "Unavailable For Legal Reasons">>, <<500, "Internal Server Error">>,
     <<501, "Not Implemented">>, <<502, "Bad Gateway">>,
     <<503, "Service Unavailable">>, <<504, "Gateway Timeout">>,
     <<505, "HTTP Version Not Supported">>, <<506, "Variant Also Negotiates">>,
     <<507, "Insufficient Storage">>, <<508, "Loop Detected">>,
     <<510, "Not Extended">>, <<511, "Network Authentication Required">>
  }

\* getStatusText(statusCode): statusCodeToText[statusCode] || "Unknown Status".
getStatusText(statusCode) ==
  IF ~statusCode.nan /\ \E e \in statusCodeToText : e[1] = statusCode.n
  THEN (CHOOSE e \in statusCodeToText : e[1] = statusCode.n)[2]
  ELSE "Unknown Status"

\* a >= k and a < k for a number a and an integer literal k (false for NaN).
GeqInt(a, k) == ~a.nan /\ a.n >= k
\* a <= k in place of a < k.
LtIntInclusive(a, k) == ~a.nan /\ a.n <= k
LtInt(a, k) == ~a.nan /\ a.n < k

\* getRawResponse() of the response r made by createResponse.
getRawResponse(r) ==
  [ok |-> GeqInt(r.statusCode, 200) /\ LtInt(r.statusCode, 300),
   url |-> r.url,
   status |-> r.statusCode,
   statusText |-> getStatusText(r.statusCode),
   headers |-> r.headers,
   redirected |-> FALSE,
   bodyUsed |-> TRUE]

\* A call that has not been made.
NoCall ==
  [phase |-> "idle",
   protocol |-> <<>>, url |-> <<>>, requestString |-> <<>>,
   destroyed |-> FALSE, endCalled |-> FALSE, readEnded |-> FALSE,
   responseData |-> <<>>, headers |-> EmptyObject, statusCode |-> Num(0),
   isHeadersParsed |-> FALSE, contentLength |-> Num(-1),
   chunkedTransfer |-> FALSE,
   promise |-> "pending", value |-> NoValue,
   settledBy |-> "none", sockAtSettle |-> "none",
   nData |-> 0, timedOut |-> FALSE, errored |-> FALSE]

NoPeer == [resp |-> 0, pos |-> 0, idle |-> 0, elapsed |-> 0]

(***************************************************************************)
(* The socket and the promise.                                             *)
(***************************************************************************)
\* What the connection is to the client: destroyed, ended (the client has
\* called end() on it) or open.
SockState(c) ==
  IF c.destroyed THEN "destroyed"
  ELSE IF c.endCalled THEN "ended"
  ELSE "open"

\* The socket emits nothing more: it was destroyed, or both directions have
\* ended (the stream then destroys itself).
Closed(c) == c.destroyed \/ (c.endCalled /\ c.readEnded)

\* sslSocket.end() and socket.end(): the client ends its side.  Ending the
\* TLS socket ends the socket it wraps.
SocketEnd(c) == [c EXCEPT !.endCalled = TRUE]

\* A timeout handler that leaves the socket as it is.
SocketDestroyNot(c) == c

\* socket.destroy().
SocketDestroy(c) == [c EXCEPT !.destroyed = TRUE]

\* A settle that replaces an outcome already delivered.
SettleAgain(c, state, v, by) ==
  [c EXCEPT !.promise = state, !.value = v, !.settledBy = by,
            !.sockAtSettle = SockState(c)]

\* The resolve and reject functions of `new Promise`: the first call settles
\* the promise, every later call does nothing.  settledBy and sockAtSettle
\* record which handler made that first call and what the socket was then.
Settle(c, state, v, by) ==
  IF c.promise = "pending"
  THEN [c EXCEPT !.promise = state, !.value = v, !.settledBy = by,
                 !.sockAtSettle = SockState(c)]
  ELSE c

Resolve(c, v, by) == Settle(c, "resolved", v, by)
Reject(c, e, by) == Settle(c, "rejected", ErrorValue(e), by)

(***************************************************************************)
(* The request encoder (makeRequest, before the socket is created).        *)
(* An object is the sequence of its <<key, value>> entries in insertion    *)
(* order, keys compared exactly as JavaScript compares property names.     *)
(***************************************************************************)
\* obj[key] = value on an object literal: an own key keeps its place and
\* takes the value, a new key is added last.
SetEntry(obj, key, value) ==
  IF \E i \in 1..Len(obj) : obj[i][1] = key
  THEN [i \in 1..Len(obj) |-> IF obj[i][1] = key THEN <<key, value>> ELSE obj[i]]
  ELSE Append(obj, <<key, value>>)

KeyHost == <<"H", "o", "s", "t">>
KeyContentLength == <<"C", "o", "n", "t", "e", "n", "t", "-", "L", "e", "n", "g", "t", "h">>
HttpVersion == <<"H", "T", "T", "P", "/", "1", ".", "1">>

\* const postData = requestData || "".
PostData(requestData) == IF requestData = Null THEN <<>> ELSE requestData

\* { ...headers, Host: host, "Content-Length": Buffer.byteLength(postData).toString() }
RequestHeaders(headers, host, postData) ==
  SetEntry(SetEntry(headers, KeyHost, host),
           KeyContentLength, NumToString(ByteLength(postData)))

\* The loop over Object.entries(requestHeaders).
RECURSIVE HeaderLinesString(_)
HeaderLinesString(entries) ==
  IF entries = <<>> THEN <<>>
  ELSE entries[1][1] \o ColonSpace \o entries[1][2] \o CRLF
       \o HeaderLinesString(Tail(entries))

\* The request text makeRequest writes to the socket.
RequestString(method, path, headers, host, requestData) ==
  method \o SP \o path \o SP \o HttpVersion \o CRLF
  \o HeaderLinesString(RequestHeaders(headers, host, PostData(requestData)))
  \o CRLF \o PostData(requestData)

\* `${protocol}://${host}:${port}${path}`
Url(protocol, host, port, path) ==
  protocol \o <<":", "/", "/">> \o host \o <<":">> \o NumToString(port) \o path


(***************************************************************************)
(* The response framer: the handlers connectCallback puts on sslSocket.    *)
(***************************************************************************)
KeyTransferEncoding == <<"t", "r", "a", "n", "s", "f", "e", "r", "-", "e", "n", "c", "o", "d", "i", "n", "g">>
KeyContentLengthLower == <<"c", "o", "n", "t", "e", "n", "t", "-", "l", "e", "n", "g", "t", "h">>
Chunked == <<"c", "h", "u", "n", "k", "e", "d">>
MinusOne == <<"-", "1">>

\* for (const line of headerLines) { const [key, value] = line.split(": ");
\*   headers[key.toLowerCase()] = value; }
RECURSIVE ParseHeaderLines(_, _)
ParseHeaderLines(headers, headerLines) ==
  IF headerLines = <<>> THEN headers
  ELSE LET parts == Split(headerLines[1], ColonSpace)
           key == At(parts, 0)
           value == At(parts, 1)
       IN ParseHeaderLines(SetProp(headers, ToLowerCase(key), value),
                           Tail(headerLines))

\* The response the handlers hand to resolve.
ResponseOf(c) ==
  createResponse(c.url, c.statusCode, c.headers, c.responseData)

\* A slice that drops the bytes after the header terminator.
BodyAfterHeadDropped(responseData, headerEndIndex) == <<>>

\* responseData.slice(headerEndIndex + 4): what follows the terminator.
BodyAfterHead(responseData, headerEndIndex) ==
  SliceFrom(responseData, headerEndIndex + 4)

\* sslSocket.on("data", (chunk) => ...).
DataHandler(c, chunk) ==
  LET c1 == [c EXCEPT !.responseData = c.responseData \o chunk]
  IN IF ~c1.isHeadersParsed
     THEN LET headerEndIndex == IndexOf(c1.responseData, CRLFCRLF)
          IN IF headerEndIndex # -1
             THEN LET headersString == Slice(c1.responseData, 0, headerEndIndex)
                      lines == Split(headersString, CRLF)
                      statusLine == lines[1]
                      headerLines == Tail(lines)
                      statusCode == ParseInt(At(Split(statusLine, SP), 1))
                      headers == ParseHeaderLines(c1.headers, headerLines)
                      chunkedTransfer ==
                        GetProp(headers, KeyTransferEncoding) = Chunked
                      contentLength ==
                        ParseInt(OrElse(GetProp(headers, KeyContentLengthLower),
                                        MinusOne))
                      c2 == [c1 EXCEPT
                               !.statusCode = statusCode,
                               !.headers = headers,
                               !.isHeadersParsed = TRUE,
                               !.chunkedTransfer = chunkedTransfer,
                               !.contentLength = contentLength,
                               !.responseData =
                                 BodyAfterHead(c1.responseData, headerEndIndex)]
                  IN IF /\ ~chunkedTransfer
                        /\ \/ NumIs(contentLength, -1)
                           \/ Geq(Len(c2.responseData), contentLength)
                     THEN Resolve(SocketEnd(c2), ResponseOf(c2), "data")
                     ELSE c2
             ELSE c1
     ELSE IF /\ ~NumIs(c1.contentLength, -1)
             /\ Geq(Len(c1.responseData), c1.contentLength)
          THEN Resolve(SocketEnd(c1), ResponseOf(c1), "data")
          ELSE c1

\* sslSocket.on("end", () => ...): resolve first, then socket.end().
EndHandler(c) ==
  SocketEnd(
    IF ~c.isHeadersParsed \/ (NumIs(c.contentLength, -1) /\ ~c.chunkedTransfer)
    THEN Resolve(c, ResponseOf(c), "end")
    ELSE c)

TimedOutMessage == "Connection timed out"
SocketErrorMessage == "socket error"

\* The timeout listener, were it to destroy the socket without rejecting.
TimeoutHandlerDestroysOnly(c) == SocketDestroy(c)

\* socket.on("timeout", () => { socket.destroy(); reject(new Error(...)); }).
TimeoutHandler(c) == Reject(SocketDestroy(c), TimedOutMessage, "timeout")

\* socket.on("error", (error) => { reject(error); }).
SocketErrorHandler(c) == Reject(c, SocketErrorMessage, "error")

\* sslSocket.on("error", (error) => { reject(error); }).
SslErrorHandler(c) == Reject(c, SocketErrorMessage, "sslError")

(***************************************************************************)
(* The transport: what a server may send.  A response is given by its      *)
(* parts and rendered to the bytes on the wire; `payload` is the body the  *)
(* sender means (for a chunked response, the chunks' contents).            *)
(***************************************************************************)
HdrContentLength == <<"C", "o", "n", "t", "e", "n", "t", "-", "L", "e", "n", "g", "t", "h">>
HdrContentLengthLower == <<"c", "o", "n", "t", "e", "n", "t", "-", "l", "e", "n", "g", "t", "h">>
HdrContentLengthUpper == <<"C", "O", "N", "T", "E", "N", "T", "-", "L", "E", "N", "G", "T", "H">>
HdrTransferEncoding == <<"T", "r", "a", "n", "s", "f", "e", "r", "-", "E", "n", "c", "o", "d", "i", "n", "g">>
HdrXId == <<"X", "-", "I", "d">>

\* Responses in the form the spec describes, each framed by one rule.
WellFormedResponses ==
  << \* 1: the spec's fixed-length scenario
     [code |-> <<"2", "0", "0">>, reason |-> <<"O", "K">>,
      hdrs |-> << <<HdrContentLength, <<"2">>>> >>,
      body |-> <<"o", "k">>, payload |-> <<"o", "k">>],
     \* 2, 3: the same with the header name in other letter cases
     [code |-> <<"2", "0", "0">>, reason |-> <<"O", "K">>,
      hdrs |-> << <<HdrContentLengthLower, <<"2">>>> >>,
      body |-> <<"o", "k">>, payload |-> <<"o", "k">>],
     [code |-> <<"2", "0", "0">>, reason |-> <<"O", "K">>,
      hdrs |-> << <<HdrContentLengthUpper, <<"2">>>> >>,
      body |-> <<"o", "k">>, payload |-> <<"o", "k">>],
     \* 4: the spec's chunked scenario
     [code |-> <<"2", "0", "1">>, reason |-> <<"C", "r", "e", "a", "t", "e", "d">>,
      hdrs |-> << <<HdrTransferEncoding, Chunked>> >>,
      body |-> <<"4", "\r", "\n", "t", "e", "s", "t", "\r", "\n", "0", "\r", "\n", "\r", "\n">>,
      payload |-> <<"t", "e", "s", "t">>],
     \* 5: neither Content-Length nor chunked
     [code |-> <<"2", "0", "0">>, reason |-> <<"O", "K">>,
      hdrs |-> << <<HdrXId, <<"7">>>> >>,
      body |-> <<"h", "e", "l", "l", "o">>, payload |-> <<"h", "e", "l", "l", "o">>],
     \* 6: an empty fixed-length body
     [code |-> <<"4", "0", "4">>, reason |-> <<"N", "o", "t", " ", "F", "o", "u", "n", "d">>,
      hdrs |-> << <<HdrContentLength, <<"0">>>> >>,
      body |-> <<>>, payload |-> <<>>],
     \* 7: two header lines
     [code |-> <<"5", "0", "0">>, reason |-> <<"N", "o">>,
      hdrs |-> << <<HdrXId, <<"7">>>>, <<HdrContentLength, <<"3">>>> >>,
      body |-> <<"a", "b", "c">>, payload |-> <<"a", "b", "c">>]
  >>

ChunkedBody == <<"4", "\r", "\n", "t", "e", "s", "t", "\r", "\n", "0", "\r", "\n", "\r", "\n">>

\* Responses at the edges of the framing rules.
EdgeResponses ==
  << \* 8: a status line without a numeric code
     [code |-> <<"a", "b", "c">>, reason |-> <<"O", "K">>,
      hdrs |-> << <<HdrContentLength, <<"2">>>> >>,
      body |-> <<"o", "k">>, payload |-> <<"o", "k">>],
     \* 9: a status line without a space (the version alone)
     [code |-> <<>>, reason |-> <<>>,
      hdrs |-> << <<HdrContentLength, <<"2">>>> >>,
      body |-> <<"o", "k">>, payload |-> <<"o", "k">>],
     \* 10: chunked transfer-encoding and a Content-Length
     [code |-> <<"2", "0", "0">>, reason |-> <<"O", "K">>,
      hdrs |-> << <<HdrTransferEncoding, Chunked>>, <<HdrContentLength, <<"3">>>> >>,
      body |-> ChunkedBody, payload |-> <<"t", "e", "s", "t">>],
     \* 11: bytes beyond the declared length
     [code |-> <<"2", "9", "9">>, reason |-> <<"O", "K">>,
      hdrs |-> << <<HdrContentLength, <<"2">>>> >>,
      body |-> <<"o", "k", "X", "Y">>, payload |-> <<"o", "k">>],
     \* 12, 13: a Content-Length that is no non-negative integer
     [code |-> <<"3", "0", "0">>, reason |-> <<"N", "o">>,
      hdrs |-> << <<HdrContentLength, <<"a", "b", "c">>>> >>,
      body |-> <<"h", "i">>, payload |-> <<"h", "i">>],
     [code |-> <<"1", "9", "9">>, reason |-> <<"N", "o">>,
      hdrs |-> << <<HdrContentLength, <<"-", "5">>>> >>,
      body |-> <<"h", "i">>, payload |-> <<"h", "i">>],
     \* 14: the transfer-encoding value with a capital letter
     [code |-> <<"2", "0", "0">>, reason |-> <<"O", "K">>,
      hdrs |-> << <<HdrTransferEncoding, <<"C", "h", "u", "n", "k", "e", "d">>>> >>,
      body |-> ChunkedBody, payload |-> <<"t", "e", "s", "t">>],
     \* 15: a header value that contains ": "
     [code |-> <<"2", "0", "4">>, reason |-> <<"O", "K">>,
      hdrs |-> << <<HdrXId, <<"a", ":", " ", "b">>>>, <<HdrContentLength, <<"2">>>> >>,
      body |-> <<"o", "k">>, payload |-> <<"o", "k">>],
     \* 16: the same header twice, in two letter cases
     [code |-> <<"2", "0", "0">>, reason |-> <<"O", "K">>,
      hdrs |-> << <<HdrXId, <<"1">>>>, <<<<"x", "-", "i", "d">>, <<"2">>>>,
                  <<HdrContentLength, <<"2">>>> >>,
      body |-> <<"o", "k">>, payload |-> <<"o", "k">>]
  >>

\* A response that is a head alone, with the status code given.
StatusProbe(code) ==
  [code |-> code, reason |-> <<"X">>, hdrs |-> <<>>, body |-> <<>>,
   payload |-> <<>>]

\* Heads with status codes at and around the limits of the 2xx range, one
\* the client has no text for, and a negative one.
StatusProbes ==
  << StatusProbe(<<"1", "0", "0">>), StatusProbe(<<"1", "9", "9">>),
     StatusProbe(<<"2", "0", "0">>), StatusProbe(<<"2", "5", "0">>),
     StatusProbe(<<"2", "9", "9">>), StatusProbe(<<"3", "0", "0">>),
     StatusProbe(<<"3", "0", "1">>), StatusProbe(<<"9", "9", "9">>),
     StatusProbe(<<"-", "2", "5", "0">>) >>

Responses == WellFormedResponses \o EdgeResponses \o StatusProbes

\* The responses of the well-formed kind, and those at the edges.
RespIds == 1..Len(WellFormedResponses)
EdgeIds == (Len(WellFormedResponses) + 1)..Len(Responses)

\* The status line: version, code and reason, or the version alone when the
\* sender gives no code.
StatusLine(r) ==
  IF r.code = <<>> THEN HttpVersion
  ELSE HttpVersion \o SP \o r.code \o SP \o r.reason

\* The bytes of a response on the wire.
Wire(r) ==
  StatusLine(r) \o CRLF \o HeaderLinesString(r.hdrs) \o CRLF \o r.body

Wires == [r \in 1..Len(Responses) |-> Wire(Responses[r])]

\* The value of a response's header `name` (lower case), compared without
\* regard to case; the last occurrence wins.  Undefined when absent.
RECURSIVE HeaderOf(_, _)
HeaderOf(hdrs, name) ==
  IF hdrs = <<>> THEN Undefined
  ELSE LET last == hdrs[Len(hdrs)]
       IN IF FoldCase(last[1]) = name THEN last[2]
          ELSE HeaderOf(SubSeq(hdrs, 1, Len(hdrs) - 1), name)

\* The three framings of the spec, read off the response's own parts.
IsChunkedResp(r) == HeaderOf(Responses[r].hdrs, KeyTransferEncoding) = Chunked
IsFixedResp(r) ==
  /\ ~IsChunkedResp(r)
  /\ HeaderOf(Responses[r].hdrs, KeyContentLengthLower) # Undefined
IsUntilCloseResp(r) == ~IsChunkedResp(r) /\ ~IsFixedResp(r)
\* The declared length of a fixed-length response.
DeclaredLength(r) ==
  DigitsVal(HeaderOf(Responses[r].hdrs, KeyContentLengthLower), 0)
\* Where the body starts on the wire.
HeadLength(r) == Len(Wires[r]) - Len(Responses[r].body)

\* The headers of a response as the mapping the caller is to see.
RECURSIVE HeaderMap(_)
HeaderMap(hdrs) ==
  IF hdrs = <<>> THEN EmptyObject
  ELSE SetProp(HeaderMap(SubSeq(hdrs, 1, Len(hdrs) - 1)),
               FoldCase(hdrs[Len(hdrs)][1]), hdrs[Len(hdrs)][2])


(***************************************************************************)
(* Arguments of makeRequest.                                               *)
(***************************************************************************)
HostName == <<"a", ".", "i", "o">>
PathName == <<"/", "p">>
MethodGet == <<"G", "E", "T">>
MethodPost == <<"P", "O", "S", "T">>
ProtoHttp == <<"h", "t", "t", "p">>
ProtoHttps == <<"h", "t", "t", "p", "s">>
PortHttp == 80
PortHttps == 443

\* Entries a caller may put in `headers`.
CallerEntries ==
  { <<KeyHost, <<"b", ".", "i", "o">>>>,
    <<<<"h", "o", "s", "t">>, <<"c", ".", "i", "o">>>>,
    <<KeyContentLength, <<"9", "9">>>>,
    <<KeyContentLengthLower, <<"7">>>>,
    <<<<"A", "c", "c", "e", "p", "t">>, <<"*", "/", "*">>>> }

\* The header objects of at most n entries: the keys of an object differ.
RECURSIVE HeaderObjects(_)
HeaderObjects(n) ==
  IF n = 0 THEN {<<>>}
  ELSE LET S == HeaderObjects(n - 1)
       IN S \cup { Append(m, e) : <<m, e>> \in
                     { x \in S \X CallerEntries :
                         /\ Len(x[1]) = n - 1
                         /\ \A i \in 1..Len(x[1]) : x[1][i][1] # x[2][1] } }

Bodies == { Null, <<>>, <<"h", "i">>, <<EAcute>>, <<"{", EAcute, "}">> }

\* The calls whose encoded request is examined.
EncArgs ==
  [host : {HostName}, port : {PortHttp}, path : {PathName},
   method : {MethodGet, MethodPost}, headers : HeaderObjects(MaxHdrs),
   requestData : Bodies, protocol : {ProtoHttp}]

\* The calls whose exchange with the server is examined.
NetArgs ==
  { [host |-> HostName, port |-> PortHttp, path |-> PathName,
     method |-> MethodGet, headers |-> <<>>, requestData |-> Null,
     protocol |-> ProtoHttp],
    [host |-> HostName, port |-> PortHttps, path |-> PathName,
     method |-> MethodPost, headers |-> <<>>, requestData |-> <<"h", "i">>,
     protocol |-> ProtoHttps] }

(***************************************************************************)
(* Actions.  Each takes the set I of calls it happens to: one call, or     *)
(* several calls that receive the same event in the same step.             *)
(***************************************************************************)
\* makeRequest up to socket.connect(...): the request is encoded, the socket
\* is created with its idle timer, the listeners are registered.
NewCall(a) ==
  [NoCall EXCEPT
     !.phase = "connecting",
     !.protocol = a.protocol,
     !.url = Url(a.protocol, a.host, a.port, a.path),
     !.requestString =
       RequestString(a.method, a.path, a.headers, a.host, a.requestData)]

MakeRequest(I, a) ==
  /\ \A i \in I : call[i].phase = "idle"
  /\ call' = [i \in CallIds |-> IF i \in I THEN NewCall(a) ELSE call[i]]
  /\ peer' = [i \in CallIds |-> IF i \in I THEN NoPeer ELSE peer[i]]
  /\ UNCHANGED requestId

\* connectCallback: on https the TLS handshake starts and the request is
\* written when it completes, on http the request is written at once; the
\* framing variables are created and the handlers registered.
ConnectCallback(c) ==
  [c EXCEPT
     !.phase = IF c.protocol = ProtoHttps THEN "handshake" ELSE "open",
     !.responseData = <<>>, !.headers = EmptyObject, !.statusCode = Num(0),
     !.isHeadersParsed = FALSE, !.contentLength = Num(-1),
     !.chunkedTransfer = FALSE]

\* The server accepts the connection; rs[i] is the response it will send.
Connect(I, rs) ==
  /\ \A i \in I : call[i].phase = "connecting" /\ ~Closed(call[i])
  /\ call' = [i \in CallIds |->
                IF i \in I THEN ConnectCallback(call[i]) ELSE call[i]]
  /\ peer' = [i \in CallIds |->
                IF i \in I
                THEN [peer[i] EXCEPT !.resp = rs[i], !.pos = 0, !.idle = 0]
                ELSE peer[i]]
  /\ UNCHANGED requestId

\* The callback of tls.connect: sslSocket.write(requestString).
SecureConnect(I) ==
  /\ \A i \in I : call[i].phase = "handshake" /\ ~Closed(call[i])
  /\ call' = [i \in CallIds |->
                IF i \in I THEN [call[i] EXCEPT !.phase = "open"] ELSE call[i]]
  /\ peer' = [i \in CallIds |->
                IF i \in I THEN [peer[i] EXCEPT !.idle = 0] ELSE peer[i]]
  /\ UNCHANGED requestId

\* The bytes of its response the server has yet to send to call i.
Remaining(i) ==
  IF peer[i].resp = 0 THEN 0 ELSE Len(Wires[peer[i].resp]) - peer[i].pos

\* The framing variables, were they kept in one place for all calls.
FramingScopeShared(i) == 1

\* The call whose framing variables (responseData, headers, statusCode,
\* isHeadersParsed, contentLength, chunkedTransfer) the data handler of call
\* i's socket reads and writes: they are declared with let inside
\* connectCallback, one set for each call.
FramingScope(i) == i

\* The next n bytes of the response arrive as one chunk.
Data(I, n) ==
  /\ \A i \in I :
       /\ call[i].phase = "open"
       /\ ~Closed(call[i]) /\ ~call[i].readEnded
       /\ n <= Remaining(i)
  /\ call' = [k \in CallIds |->
                IF \E i \in I : FramingScope(i) = k
                THEN LET i == CHOOSE j \in I : FramingScope(j) = k
                     IN [DataHandler(call[k],
                                     SubSeq(Wires[peer[i].resp],
                                            peer[i].pos + 1, peer[i].pos + n))
                           EXCEPT !.nData = IF @ < MaxCount THEN @ + 1 ELSE @]
                ELSE call[k]]
  /\ peer' = [i \in CallIds |->
                IF i \in I THEN [peer[i] EXCEPT !.pos = @ + n, !.idle = 0]
                ELSE peer[i]]
  /\ UNCHANGED requestId

\* The server closes its side: the socket emits "end".
End(I) ==
  /\ \A i \in I :
       /\ call[i].phase = "open"
       /\ ~Closed(call[i]) /\ ~call[i].readEnded
  /\ call' = [i \in CallIds |->
                IF i \in I
                THEN EndHandler([call[i] EXCEPT !.readEnded = TRUE])
                ELSE call[i]]
  /\ UNCHANGED <<requestId, peer>>

\* Time passes without activity on the socket.
Tick(I) ==
  /\ \A i \in I :
       /\ call[i].phase # "idle" /\ ~Closed(call[i])
       /\ peer[i].idle < TimeoutTicks
  /\ peer' = [i \in CallIds |->
                IF i \in I THEN [peer[i] EXCEPT !.idle = @ + 1] ELSE peer[i]]
  /\ UNCHANGED <<requestId, call>>

\* Time passes without activity on the socket, counted since the call was
\* made as well.
ClockTick(I) ==
  /\ \A i \in I :
       /\ call[i].phase # "idle" /\ ~Closed(call[i])
       /\ peer[i].idle < TimeoutTicks
       /\ peer[i].elapsed < MaxElapsed
  /\ peer' = [i \in CallIds |->
                IF i \in I
                THEN [peer[i] EXCEPT !.idle = @ + 1, !.elapsed = @ + 1]
                ELSE peer[i]]
  /\ UNCHANGED <<requestId, call>>

\* The idle timer set by socket.setTimeout(timeout) fires.
Timeout(I) ==
  /\ \A i \in I :
       /\ call[i].phase # "idle" /\ ~Closed(call[i])
       /\ peer[i].idle = TimeoutTicks
  /\ call' = [i \in CallIds |->
                IF i \in I
                THEN TimeoutHandler([call[i] EXCEPT !.timedOut = TRUE])
                ELSE call[i]]
  /\ UNCHANGED <<requestId, peer>>

\* The raw socket fails (refused, reset): the stream is destroyed with the
\* error and emits "error".  Before connectCallback only makeRequest's
\* listener is registered; after it, on http, sslSocket is the same socket
\* and its listener runs too.
SocketError(I) ==
  /\ \A i \in I : call[i].phase # "idle" /\ ~Closed(call[i])
  /\ call' = [i \in CallIds |->
                IF i \in I
                THEN LET c == [call[i] EXCEPT !.destroyed = TRUE,
                                              !.errored = TRUE]
                     IN IF c.phase = "open" /\ c.protocol = ProtoHttp
                        THEN SslErrorHandler(SocketErrorHandler(c))
                        ELSE SocketErrorHandler(c)
                ELSE call[i]]
  /\ UNCHANGED <<requestId, peer>>

\* The TLS socket fails (handshake, certificate, record error): it is
\* destroyed with the error, which destroys the socket it wraps.
SslError(I) ==
  /\ \A i \in I :
       /\ call[i].protocol = ProtoHttps
       /\ call[i].phase \in {"handshake", "open"} /\ ~Closed(call[i])
  /\ call' = [i \in CallIds |->
                IF i \in I
                THEN SslErrorHandler([call[i] EXCEPT !.destroyed = TRUE,
                                                     !.errored = TRUE])
                ELSE call[i]]
  /\ UNCHANGED <<requestId, peer>>

(***************************************************************************)
(* Specifications.                                                         *)
(***************************************************************************)
\* new CustomHttpClient(): no call has been made.
Init ==
  /\ requestId = ""
  /\ call = [i \in CallIds |-> NoCall]
  /\ peer = [i \in CallIds |-> NoPeer]

\* One call and every order of the events of its socket.
Next ==
  \/ \E a \in NetArgs : MakeRequest({1}, a)
  \/ \E r \in RespIds : Connect({1}, [i \in CallIds |-> r])
  \/ SecureConnect({1})
  \/ \E n \in 1..Remaining(1) : Data({1}, n)
  \/ End({1})
  \/ Tick({1})
  \/ Timeout({1})
  \/ SocketError({1})
  \/ SslError({1})

Spec == Init /\ [][Next]_vars

\* The request encoder alone, over the caller's header objects and bodies.
NextEncode == \E a \in EncArgs : MakeRequest({1}, a)

SpecEncode == Init /\ [][NextEncode]_vars


\* Two calls that receive every event in the same step, the second from a
\* server whose response differs from the first's only in the letter case of
\* its header names.
SameButCase(r1, r2) ==
  /\ r1 # r2
  /\ [Responses[r1] EXCEPT !.hdrs = <<>>] = [Responses[r2] EXCEPT !.hdrs = <<>>]
  /\ Len(Responses[r1].hdrs) = Len(Responses[r2].hdrs)
  /\ \A k \in 1..Len(Responses[r1].hdrs) :
       /\ FoldCase(Responses[r1].hdrs[k][1]) = FoldCase(Responses[r2].hdrs[k][1])
       /\ Responses[r1].hdrs[k][2] = Responses[r2].hdrs[k][2]

TwinPairs == { pr \in RespIds \X RespIds : SameButCase(pr[1], pr[2]) }

NextTwin ==
  \/ \E a \in NetArgs : MakeRequest({1, 2}, a)
  \/ \E pr \in TwinPairs : Connect({1, 2}, pr)
  \/ SecureConnect({1, 2})
  \/ \E n \in 1..Remaining(1) : Data({1, 2}, n)
  \/ End({1, 2})
  \/ Tick({1, 2})
  \/ Timeout({1, 2})
  \/ SocketError({1, 2})
  \/ SslError({1, 2})

SpecTwin == Init /\ [][NextTwin]_vars

\* One call whose server sends a response at the edges of the framing rules.
NextEdge ==
  \/ \E a \in NetArgs : MakeRequest({1}, a)
  \/ \E r \in EdgeIds : Connect({1}, [i \in CallIds |-> r])
  \/ SecureConnect({1})
  \/ \E n \in 1..Remaining(1) : Data({1}, n)
  \/ End({1})
  \/ Tick({1})
  \/ Timeout({1})
  \/ SocketError({1})
  \/ SslError({1})

SpecEdge == Init /\ [][NextEdge]_vars

\* The sizes of the next chunk of call i when chunks are cut every Stride
\* bytes, or at the end of the response.
Cuts(i) == { n \in 1..Remaining(i) : n % Stride = 0 \/ n = Remaining(i) }

\* One call, with the time since it was made counted.
NextClock ==
  \/ \E a \in NetArgs : MakeRequest({1}, a)
  \/ \E r \in RespIds : Connect({1}, [i \in CallIds |-> r])
  \/ SecureConnect({1})
  \/ \E n \in Cuts(1) : Data({1}, n)
  \/ End({1})
  \/ ClockTick({1})
  \/ Timeout({1})
  \/ SocketError({1})
  \/ SslError({1})

SpecClock == Init /\ [][NextClock]_vars

\* The responses sent to concurrent calls: the fixed-length response 1 and
\* the response 5 that ends with the connection.
ConcurrentResps == {1, 5}

\* The arguments of concurrent calls: those for a plain http URL.
ConcurrentArgs == { a \in NetArgs : a.protocol = ProtoHttp }

\* The events of call j on a plain socket: its own call of makeRequest and
\* what its socket emits.
EventOf(j) ==
  \/ \E a \in ConcurrentArgs : MakeRequest({j}, a)
  \/ \E r \in ConcurrentResps : Connect({j}, [i \in CallIds |-> r])
  \/ \E n \in Cuts(j) : Data({j}, n)
  \/ End({j})
  \/ Tick({j})
  \/ Timeout({j})
  \/ SocketError({j})

\* Two calls on one client, the events of their sockets in any order.
NextConcurrent == \E j \in CallIds : EventOf(j)

SpecConcurrent == Init /\ [][NextConcurrent]_vars

(***************************************************************************)
(* Properties.                                                             *)
(***************************************************************************)
\* The response the server of call i sends (0: none yet).
RespOf(i) == peer[i].resp
\* Every byte of the response has been delivered to call i in data events.
Delivered(i) == RespOf(i) # 0 /\ peer[i].pos = Len(Wires[RespOf(i)])
\* The body bytes delivered to call i so far.
BodyDelivered(i) ==
  IF peer[i].pos <= HeadLength(RespOf(i)) THEN <<>>
  ELSE SubSeq(Wires[RespOf(i)], HeadLength(RespOf(i)) + 1, peer[i].pos)
\* The status code of a response, as a number.
StatusOf(r) == Num(DigitsVal(Responses[r].code, 0))
\* The call resolved with the response r as its sender means it.
ResolvedWith(i, r) ==
  /\ call[i].promise = "resolved"
  /\ call[i].value.kind = "response"
  /\ call[i].value.statusCode = StatusOf(r)
  /\ call[i].value.headers = HeaderMap(Responses[r].hdrs)
  /\ call[i].value.responseData = Responses[r].payload

\* C1: a response with Content-Length n followed by exactly n body bytes,
\* delivered in chunks cut anywhere, resolves on the data event that brings
\* the last byte, with exactly those n bytes as body and the status and
\* headers of its head.
C1_FixedLengthBody ==
  \A i \in CallIds :
    ( /\ Delivered(i)
      /\ IsFixedResp(RespOf(i))
      /\ Len(Responses[RespOf(i)].body) = DeclaredLength(RespOf(i)) )
    => /\ ResolvedWith(i, RespOf(i))
       /\ call[i].settledBy = "data"
       /\ Len(call[i].value.responseData) = DeclaredLength(RespOf(i))

\* C1 witness: a fixed-length response with a non-empty body that arrived in
\* at least MaxCount chunks has resolved with its body.
C1_Witness ==
  /\ Delivered(1) /\ IsFixedResp(RespOf(1))
  /\ DeclaredLength(RespOf(1)) > 0
  /\ call[1].nData = MaxCount
  /\ ResolvedWith(1, RespOf(1))

\* C2: a chunked response whose bytes, the zero-size chunk included, have
\* all been delivered has resolved with the concatenation of the chunk
\* payloads as body and the status of its head.
C2_ChunkedDecoded ==
  \A i \in CallIds :
    ( /\ Delivered(i)
      /\ IsChunkedResp(RespOf(i))
      /\ ~call[i].timedOut /\ ~call[i].errored )
    => ResolvedWith(i, RespOf(i))

\* C3: with neither Content-Length nor chunked transfer-encoding in the
\* parsed head, the call resolves only in the end handler, and with every
\* body byte received until then.
C3_UntilCloseResolvesAtEnd ==
  \A i \in CallIds :
    ( /\ RespOf(i) # 0 /\ IsUntilCloseResp(RespOf(i))
      /\ call[i].isHeadersParsed
      /\ call[i].promise = "resolved" )
    => /\ call[i].settledBy = "end"
       /\ call[i].value.responseData = BodyDelivered(i)

MalformedResponse == "MalformedResponse"

\* C4: end-of-stream after the head of a Content-Length n response was parsed
\* and before n body bytes arrived rejects the call with MalformedResponse.
C4_PrematureEndIsMalformed ==
  \A i \in CallIds :
    ( /\ RespOf(i) # 0 /\ IsFixedResp(RespOf(i))
      /\ call[i].isHeadersParsed
      /\ call[i].readEnded
      /\ Len(BodyDelivered(i)) < DeclaredLength(RespOf(i))
      /\ ~call[i].timedOut /\ ~call[i].errored )
    => /\ call[i].promise = "rejected"
       /\ call[i].value.error = MalformedResponse

\* C5: once the transport has delivered end-of-stream, an error or a timeout
\* the promise is settled.
C5_Settles ==
  \A i \in CallIds :
    (call[i].readEnded \/ call[i].errored \/ call[i].timedOut)
    => call[i].promise # "pending"

\* C6: when the promise is resolved or rejected, the client has already ended
\* or destroyed the socket.
C6_ClosedBeforeSettle ==
  \A i \in CallIds :
    call[i].promise # "pending"
    => call[i].sockAtSettle \in {"ended", "destroyed"}

\* C7: when the connection was accepted and the timeout fires before any byte
\* was delivered, the call is rejected with the timeout error, never
\* resolved, and the socket was destroyed before the rejection.
C7_TimeoutRejects ==
  \A i \in CallIds :
    ( /\ call[i].timedOut
      /\ call[i].phase \in {"handshake", "open"}
      /\ call[i].nData = 0 )
    => /\ call[i].promise = "rejected"
       /\ call[i].value = ErrorValue(TimedOutMessage)
       /\ call[i].settledBy = "timeout"
       /\ call[i].destroyed
       /\ call[i].sockAtSettle = "destroyed"

\* C7 witness: an accepted connection that delivered nothing has timed out
\* and the call is rejected.
C7_Witness ==
  /\ call[1].timedOut /\ call[1].phase = "open" /\ call[1].nData = 0
  /\ call[1].promise = "rejected"

\* C8: an outcome, once delivered, is never replaced: after the promise has
\* settled no event changes its state or its value, so a call observes at
\* most one outcome and no response follows a delivered failure.
C8_OneOutcome ==
  [][\A i \in CallIds :
       call[i].promise # "pending"
       => /\ call'[i].promise = call[i].promise
          /\ call'[i].value = call[i].value
          /\ call'[i].settledBy = call[i].settledBy]_vars

\* C8 witness: a call that resolved on data and then received a timeout is
\* still resolved with its response.
C8_Witness ==
  /\ call[1].promise = "resolved" /\ call[1].value.kind = "response"
  /\ call[1].timedOut

\* The header lines of an encoded request, and the number of them whose
\* name is `name` when letter case is ignored.
RequestHeaderLines(req) ==
  Tail(Split(Slice(req, 0, IndexOf(req, CRLFCRLF)), CRLF))
CountHeader(req, name) ==
  Cardinality({ k \in 1..Len(RequestHeaderLines(req)) :
                  FoldCase(At(Split(RequestHeaderLines(req)[k], ColonSpace), 0))
                    = name })

\* C9: the encoded request has exactly one Host header and exactly one
\* Content-Length header, whatever the caller's header mapping holds.
C9_HostAndLengthOnce ==
  \A i \in CallIds :
    call[i].phase # "idle"
    => /\ CountHeader(call[i].requestString, FoldCase(KeyHost)) = 1
       /\ CountHeader(call[i].requestString, KeyContentLengthLower) = 1

\* The closure of a call; while the head has not been parsed, the bytes
\* collected so far (which the end handler hands over as they are) are taken
\* without their letter case.
Framing(c) ==
  IF c.isHeadersParsed THEN c
  ELSE [c EXCEPT !.responseData = FoldCase(@),
                 !.value.responseData = FoldCase(@)]

\* C10: two responses that differ only in the letter case of their header
\* names, delivered with the same chunk boundaries, are framed alike: after
\* every event both calls have the same parsed status and headers, the same
\* framing variables, the same promise state, and once the head is parsed
\* the same body and outcome.
C10_CaseInsensitiveFraming == Framing(call[1]) = Framing(call[2])

\* C10 witness: both calls resolved with the body, from heads whose header
\* names are written in different cases.
C10_Witness ==
  /\ RespOf(1) # 0 /\ RespOf(2) # 0
  /\ Responses[RespOf(1)].hdrs # Responses[RespOf(2)].hdrs
  /\ call[1].nData >= 2
  /\ ResolvedWith(1, RespOf(1)) /\ ResolvedWith(2, RespOf(2))
  /\ call[1].contentLength = Num(DeclaredLength(RespOf(1)))

\* The status line of the response has no numeric status code.
MalformedStatusLine(r) ==
  \/ Responses[r].code = <<>>
  \/ \E k \in 1..Len(Responses[r].code) : Responses[r].code[k] \notin Digits

\* C11: once the head of a response whose status line has no numeric code
\* (a word in its place, or no space at all) is parsed, the call is rejected
\* with MalformedResponse; no call resolves with a status that is not a number.
C11_MalformedStatusRejected ==
  \A i \in CallIds :
    /\ ( /\ RespOf(i) # 0 /\ MalformedStatusLine(RespOf(i))
         /\ call[i].isHeadersParsed )
       => /\ call[i].promise = "rejected"
          /\ call[i].value = ErrorValue(MalformedResponse)
    /\ call[i].promise = "resolved" => ~call[i].value.statusCode.nan

\* C12: when the stream ends before the blank line that ends the head has
\* arrived (no byte at all included), the call does not resolve with a
\* response.
C12_NoResponseWithoutHead ==
  \A i \in CallIds :
    (call[i].readEnded /\ ~call[i].isHeadersParsed)
    => call[i].promise # "resolved"

\* C13: the ok flag of getRawResponse() is true exactly when the status is a
\* number from 200 to 299, and false for every other status the framer hands
\* to createResponse (below 200, 300 and above, 0, negative, not a number).
C13_OkExactlyFor2xx ==
  \A i \in CallIds :
    (call[i].promise = "resolved" /\ call[i].value.kind = "response")
    => LET status == call[i].value.statusCode
       IN /\ getRawResponse(call[i].value).ok
               = (~status.nan /\ status.n \in 200..299)
          /\ getRawResponse(call[i].value).status = status

\* C13 witness: a call resolved with status 300, whose ok flag is false.
C13_Witness ==
  /\ call[1].promise = "resolved" /\ call[1].value.kind = "response"
  /\ call[1].value.statusCode = Num(300)
  /\ ~getRawResponse(call[1].value).ok
  /\ getRawResponse(call[1].value).statusText = "Multiple Choices"

\* The response carries both a chunked transfer-encoding and a Content-Length.
HasBothFramings(r) ==
  /\ IsChunkedResp(r)
  /\ HeaderOf(Responses[r].hdrs, KeyContentLengthLower) # Undefined

\* C14: a response with both transfer-encoding: chunked and a Content-Length
\* is framed as chunked; the Content-Length never decides completion, so the
\* call does not complete before the last byte of the chunked body has
\* arrived, whether the body comes with the head or in later chunks.
C14_ChunkedOverridesLength ==
  \A i \in CallIds :
    ( /\ RespOf(i) # 0 /\ HasBothFramings(RespOf(i))
      /\ call[i].isHeadersParsed )
    => /\ call[i].chunkedTransfer
       /\ call[i].promise = "resolved" => Delivered(i)

\* The Content-Length value of the response is a non-negative integer.
ValidLength(r) ==
  LET v == HeaderOf(Responses[r].hdrs, KeyContentLengthLower)
  IN v # Undefined /\ v # <<>> /\ \A k \in 1..Len(v) : v[k] \in Digits

\* C15: under fixed-length framing with Content-Length n the body of the
\* resolved response has exactly n bytes, also when the sender's bytes go on
\* after the n-th.
C15_ExactlyDeclaredBytes ==
  \A i \in CallIds :
    ( /\ RespOf(i) # 0 /\ IsFixedResp(RespOf(i)) /\ ValidLength(RespOf(i))
      /\ call[i].isHeadersParsed
      /\ call[i].promise = "resolved" )
    => Len(call[i].value.responseData) = DeclaredLength(RespOf(i))

\* C16: a Content-Length that is no non-negative integer ("abc", "-5")
\* selects until-close framing: the call completes at end-of-stream, with
\* every body byte received, not before, and is not left pending by the end.
C16_InvalidLengthIsUntilClose ==
  \A i \in CallIds :
    ( /\ RespOf(i) # 0 /\ IsFixedResp(RespOf(i)) /\ ~ValidLength(RespOf(i))
      /\ call[i].isHeadersParsed )
    => /\ call[i].promise = "resolved"
          => /\ call[i].settledBy = "end"
             /\ call[i].value.responseData = BodyDelivered(i)
       /\ call[i].readEnded => call[i].promise = "resolved"

\* The transfer-encoding value of the response is "chunked" in any letter case.
ChunkedAnyCase(r) ==
  FoldCase(HeaderOf(Responses[r].hdrs, KeyTransferEncoding)) = Chunked

\* C17: the transfer-encoding value is compared without regard to letter
\* case: "chunked", "Chunked" and "CHUNKED" all select chunked framing.
C17_ChunkedValueAnyCase ==
  \A i \in CallIds :
    ( /\ RespOf(i) # 0 /\ ChunkedAnyCase(RespOf(i))
      /\ call[i].isHeadersParsed )
    => call[i].chunkedTransfer

\* C18: each header line is split at its first ": " only, so a value that
\* contains ": " is kept whole; names are lower-cased and of two lines with
\* the same lower-cased name the later one gives the value.
C18_HeaderLineSplitOnce ==
  \A i \in CallIds :
    (RespOf(i) # 0 /\ call[i].isHeadersParsed)
    => call[i].headers = HeaderMap(Responses[RespOf(i)].hdrs)

OwnBytes(i) ==
  RespOf(i) # 0
  => /\ call[i].responseData
          = IF call[i].isHeadersParsed THEN BodyDelivered(i)
            ELSE SubSeq(Wires[RespOf(i)], 1, peer[i].pos)
     /\ call[i].isHeadersParsed
        => /\ call[i].statusCode = StatusOf(RespOf(i))
           /\ call[i].headers = HeaderMap(Responses[RespOf(i)].hdrs)

\* C20: calls in flight on the same client share no mutable state.  An event
\* of one call leaves the other call (its closure, its socket) as it was, so
\* each call goes through the states it would go through alone; the client's
\* own field is never written; the bytes, status and headers a call holds are
\* those of its own response.
C20_CallsShareNothing ==
  /\ [](requestId = "" /\ \A i \in CallIds : OwnBytes(i))
  /\ [][\A j \in CallIds :
          EventOf(j)
          => \A i \in CallIds \ {j} :
               call'[i] = call[i] /\ peer'[i] = peer[i]]_vars

\* C20 witness: two calls with different responses in flight, the first
\* resolved on its data after the second had received a part of its head,
\* the second still pending with that part.
C20_Witness ==
  /\ RespOf(1) # 0 /\ RespOf(2) # 0 /\ RespOf(1) # RespOf(2)
  /\ ResolvedWith(1, RespOf(1)) /\ call[1].settledBy = "data"
  /\ call[1].nData >= 2
  /\ call[2].nData >= 1 /\ ~call[2].isHeadersParsed
  /\ call[2].responseData # <<>> /\ call[2].promise = "pending"

====
